---- MODULE Spec2Model ----
(***************************************************************************)
(* Model of email_dumper.py: the click command chain, the IMAPDumper and   *)
(* POP3Dumper constructors, IMAPDumper.use_folder / dump_folder / dump_all *)
(* and POP3Dumper.dump_all, together with the parts of the mail server,    *)
(* the clock and the file system those methods read and write.             *)
(***************************************************************************)
EXTENDS Integers, Sequences, FiniteSets, TLC

\* ---------------------------------------------------------------- bounds
NumFolders == 2      \* folders returned by list_folders()
MaxMsgs == 2         \* messages a folder can hold
MaxPop == 2          \* messages the POP3 mailbox can hold
MaxFailures == 2     \* server / file-system failures injected into one run

\* ------------------------------------------------------------- constants
LF == 10             \* b'\n'

\* folders a run can meet: the longer list_folders() result has one more
AllFolders == 1..(NumFolders + 1)

ImapRoot == "./imap"
Pop3Root == "./pop3"

\* the command chains click can be started with
Chains == { <<"imap_dump">>, <<"pop3_dump">>,
            <<"imap_dump", "send_message">>, <<"pop3_dump", "send_message">> }

OutputFolder(cmd) == IF cmd = "imap_dump" THEN ImapRoot ELSE Pop3Root

\* ------------------------------------------------- session establishment
\* what the environment does to the connection attempt
Conditions == { "ok", "invalid_credentials", "dns_failure",
                "connection_refused", "host_unreachable", "connect_timeout" }

NetworkFailures == { "dns_failure", "connection_refused",
                     "host_unreachable", "connect_timeout" }

\* exception class the protocol library raises under a condition
Raised(proto, c) ==
    CASE c = "invalid_credentials" ->
             IF proto = "imap" THEN "LoginError" ELSE "error_proto"
      [] c = "dns_failure"        -> "gaierror"
      [] c = "connection_refused" -> "ConnectionRefusedError"
      [] c = "host_unreachable"   -> "OSError"
      [] c = "connect_timeout"    -> "TimeoutError"

\* Python's exception class hierarchy, as far as the handlers see it
Parent(c) ==
    CASE c = "LoginError"             -> "IMAP4.error"
      [] c = "IMAP4.error"            -> "Exception"
      [] c = "error_proto"            -> "Exception"
      [] c = "gaierror"               -> "OSError"
      [] c = "ConnectionRefusedError" -> "OSError"
      [] c = "TimeoutError"           -> "OSError"
      [] c = "OSError"                -> "Exception"
      [] c = "Exception"              -> "BaseException"

RECURSIVE IsInstance(_, _)
IsInstance(c, cls) ==
    IF c = cls THEN TRUE
    ELSE IF c = "BaseException" THEN FALSE
    ELSE IsInstance(Parent(c), cls)

\* the except clauses of IMAPDumper.__init__, in order
IMAPInitHandler(exc) ==
    IF IsInstance(exc, "IMAP4.error") THEN "auth"
    ELSE IF IsInstance(exc, "gaierror") THEN "conn"
    ELSE "uncaught"

\* a handler whose two except clauses print each other's message
POP3InitHandlerSwapped(exc) ==
    IF IsInstance(exc, "gaierror") THEN "auth"
    ELSE IF IsInstance(exc, "error_proto") THEN "conn"
    ELSE "uncaught"

\* the except clauses of POP3Dumper.__init__, in order
POP3InitHandler(exc) ==
    IF IsInstance(exc, "gaierror") THEN "conn"
    ELSE IF IsInstance(exc, "error_proto") THEN "auth"
    ELSE "uncaught"

\* print_auth_error / print_server_connection_error
AuthErrorMsg == <<"Invalid username or password. Auth is failed", "">>
ConnErrorMsg(server) == <<"Connection to server is failed", server>>
ServerName == "mail.example.org"
UserName == "user"
ToAddress == "a@b.com"
MessageText == "There is test message"

ErrorLines(o) == SelectSeq(o, LAMBDA l : l = AuthErrorMsg \/ l = ConnErrorMsg(ServerName))

\* ------------------------------------------------------------ IMAP flags
Seen == "\\Seen"
Flagged == "\\Flagged"

\* flags a message of the server carries before the export
InitialFlags(f, m) ==
    CASE (f + m) % 4 = 0 -> {}
      [] (f + m) % 4 = 1 -> {Seen}
      [] (f + m) % 4 = 2 -> {Flagged}
      [] (f + m) % 4 = 3 -> {Seen, Flagged}

\* get_flags: the flag set of a message as a tuple of flag tokens
FlagTuple(s) ==
    (IF Seen \in s THEN <<Seen>> ELSE <<>>) \o
    (IF Flagged \in s THEN <<Flagged>> ELSE <<>>)

\* ' '.join(flags): the tokens with a blank between two neighbours
Join(flags) ==
    [i \in 1..(IF Len(flags) = 0 THEN 0 ELSE 2 * Len(flags) - 1) |->
        IF i % 2 = 1 THEN flags[(i + 1) \div 2] ELSE " "]

\* the second argument of set_flags (line 63)
FlagsArg(flags) == IF Len(flags) > 0 THEN Join(flags) ELSE <<>>

\* the server reads the STORE argument as a blank-separated flag list
ParseFlagList(s) == { s[i] : i \in DOMAIN s } \ {" "}

\* a STORE that adds to the flags instead of replacing them
StoreFlagsAdd(cur, arg) == cur \cup ParseFlagList(arg)

\* set_flags: STORE FLAGS replaces the message's flag set
StoreFlags(cur, arg) == ParseFlagList(arg)

\* fetch of RFC822 marks the message as read
FetchSideEffect(cur) == cur \cup {Seen}

\* --------------------------------------------------------- message bytes
\* raw bytes of IMAP message m of folder f
Body(f, m) == <<70 + f, 77 + m, LF>>

\* the fetch response for one message id
FetchResponse(f, m) == [RFC822 |-> Body(f, m), SEQ |-> m]

\* message.get(b'RFC822', message) (line 66)
Payload(resp) == IF "RFC822" \in DOMAIN resp THEN resp.RFC822 ELSE resp

NoMessage == [SEQ |-> 0]

\* retr(i)[1]: the lines of POP3 message i, without terminators
Retr(i) == [k \in 1..(i % 3) |-> <<64 + i, 48 + k>>]

\* the inner loop of POP3Dumper.dump_all: f.write(line + b'\n') per line
RECURSIVE WriteLines(_)
WriteLines(lines) ==
    IF lines = <<>> THEN <<>>
    ELSE Head(lines) \o <<LF>> \o WriteLines(Tail(lines))

\* ---------------------------------------------------------- file system
\* time(): the readings the clock can give after reading c; two calls in a
\* row can see the same reading (0 stands for "not read yet")
TimeReadings(c) == IF c = 0 THEN {1} ELSE {c, c + 1}

\* md5(str(time())).hexdigest() + '.eml': a function of the clock reading
FileName(t) == <<t, ".eml">>

Path(root, f, t) == <<root, f, FileName(t)>>

\* open(path, 'wb') followed by the writes: creates or replaces the file
WriteFile(fs, p, content) ==
    [q \in (DOMAIN fs) \cup {p} |-> IF q = p THEN content ELSE fs[q]]

\* os.makedirs(os.path.join(root, folder), exist_ok=True); f = 0 is the root
MakeDirs(ds, root, f) == ds \cup {<<root, 0>>, <<root, f>>}

FilesIn(fs, root, f) == { p \in DOMAIN fs : p[1] = root /\ p[2] = f }

\* ---------------------------------------------------------------- state
VARIABLES
    pc,              \* position in the program
    chain,           \* subcommands still to run
    cur,             \* subcommand that is running
    cond,            \* condition the last session attempt met
    attempts,        \* session attempts made
    out,             \* lines printed
    exited,          \* "running", "normal", "sys.exit" or "traceback"
    started,         \* subcommands started, in order
    dumped,          \* subcommands whose dump_all was invoked
    folderIdx,       \* folder the loop of dump_all is at
    selected,        \* folder selected on the IMAP session, 0 if none
    how,             \* how the scope of use_folder is being left
    serverFlags,     \* flags on the server, per folder and message
    origFlags,       \* flags on the server when the folder was selected
    message_ids,     \* local of dump_folder
    messages_flags,  \* local of dump_folder
    pos,             \* position of the for loop in messages_flags
    message,         \* local of dump_folder
    clock,           \* last reading of time()
    files,           \* file system: path -> content
    dirs,            \* directories that exist
    result,          \* per folder: outcome of the dump_folder call
    failure,         \* per folder: the step that raised
    failedMsg,       \* per folder: message being processed when it raised
    exported,        \* per folder: messages whose artifact was written
    log,             \* commands sent on the IMAP session
    nfail,           \* failures injected so far
    popCount,        \* len(client.list()[1])
    popIdx,          \* message_id of the loop of POP3Dumper.dump_all
    retrLog,         \* indexes passed to retr, in order
    popFailed,       \* TRUE once a retr call has raised
    nFolders,        \* len(list_folders())
    sent             \* messages handed to sendmail

vars == <<pc, chain, cur, cond, attempts, out, exited, started, dumped,
          folderIdx, selected, how, serverFlags, origFlags, message_ids,
          messages_flags, pos, message, clock, files, dirs, result, failure,
          failedMsg, exported, log, nfail, popCount, popIdx, retrLog,
          popFailed, nFolders, sent>>

\* the folders list_folders() returns
Folders == 1..nFolders

cliVars == <<chain, cur, cond, attempts, out, exited, started, dumped>>
imapVars == <<nFolders, folderIdx, selected, how, serverFlags, origFlags, message_ids,
              messages_flags, pos, message, result, failure, failedMsg,
              exported, log>>
popVars == <<popCount, popIdx, retrLog, popFailed>>
fsVars == <<clock, files, dirs>>

InitWith(n) ==
    /\ nFolders = n
    /\ sent = <<>>
    /\ pc = "cli"
    /\ chain \in Chains
    /\ cur = "none"
    /\ cond = "none"
    /\ attempts = 0
    /\ out = <<>>
    /\ exited = "running"
    /\ started = <<>>
    /\ dumped = <<>>
    /\ folderIdx = 0
    /\ selected = 0
    /\ how = "normal"
    /\ serverFlags = [f \in AllFolders |-> <<>>]
    /\ origFlags = [f \in AllFolders |-> <<>>]
    /\ message_ids = <<>>
    /\ messages_flags = <<>>
    /\ pos = 0
    /\ message = NoMessage
    /\ clock = 0
    /\ files = <<>>
    /\ dirs = {}
    /\ result = [f \in AllFolders |-> "not_called"]
    /\ failure = [f \in AllFolders |-> "none"]
    /\ failedMsg = [f \in AllFolders |-> 0]
    /\ exported = [f \in AllFolders |-> {}]
    /\ log = <<>>
    /\ nfail = 0
    /\ popCount = 0
    /\ popIdx = 0
    /\ retrLog = <<>>
    /\ popFailed = FALSE

Init == InitWith(NumFolders)

\* the same program against a server with one folder more
InitLong == InitWith(NumFolders + 1)

\* ------------------------------------------------------------------ cli
\* click runs the next subcommand of the chain
cli_invoke ==
    /\ pc = "cli"
    /\ chain # <<>>
    /\ cur' = Head(chain)
    /\ chain' = Tail(chain)
    /\ started' = Append(started, Head(chain))
    /\ pc' = CASE Head(chain) = "imap_dump" -> "imap_init"
               [] Head(chain) = "pop3_dump" -> "pop3_init"
               [] Head(chain) = "send_message" -> "send_message"
    /\ UNCHANGED <<cond, attempts, out, exited, dumped, nfail, sent>>
    /\ UNCHANGED <<imapVars, popVars, fsVars>>

\* the send_message command: send_test_message and the line it prints; any
\* exception of the SMTP session is not handled
send_message ==
    /\ pc = "send_message"
    /\ \/ /\ sent' = Append(sent, [From |-> UserName, To |-> ToAddress,
                                    Subject |-> "Test message",
                                    Payload |-> MessageText])
          /\ out' = Append(out, <<"Test message sent", ToAddress>>)
          /\ pc' = "cli"
          /\ UNCHANGED exited
       \/ /\ pc' = "terminated"
          /\ exited' = "traceback"
          /\ UNCHANGED <<sent, out>>
    /\ UNCHANGED <<chain, cur, cond, attempts, started, dumped, nfail>>
    /\ UNCHANGED <<imapVars, popVars, fsVars>>

\* the chain is exhausted: the process ends
cli_finish ==
    /\ pc = "cli"
    /\ chain = <<>>
    /\ pc' = "terminated"
    /\ exited' = "normal"
    /\ UNCHANGED <<chain, cur, cond, attempts, out, started, dumped, nfail, sent>>
    /\ UNCHANGED <<imapVars, popVars, fsVars>>

\* what a constructor does with the outcome of the session attempt
SessionOutcome(c, handler, okpc) ==
    /\ cond' = c
    /\ attempts' = attempts + 1
    /\ IF c = "ok"
       THEN /\ pc' = okpc
            /\ dumped' = Append(dumped, cur)
            /\ UNCHANGED <<out, exited>>
       ELSE /\ pc' = "terminated"
            /\ out' = CASE handler = "auth" -> Append(out, AuthErrorMsg)
                        [] handler = "conn" -> Append(out, ConnErrorMsg(ServerName))
                        [] OTHER -> out
            /\ exited' = IF handler = "uncaught" THEN "traceback" ELSE "sys.exit"
            /\ UNCHANGED dumped

IMAPDumper_init ==
    /\ pc = "imap_init"
    /\ \E c \in Conditions :
         SessionOutcome(c, IF c = "ok" THEN "none"
                           ELSE IMAPInitHandler(Raised("imap", c)), "dump_all")
    /\ UNCHANGED <<chain, cur, started, nfail, sent>>
    /\ UNCHANGED <<imapVars, popVars, fsVars>>

POP3Dumper_init ==
    /\ pc = "pop3_init"
    /\ \E c \in Conditions :
         SessionOutcome(c, IF c = "ok" THEN "none"
                           ELSE POP3InitHandler(Raised("pop3", c)), "pop3_dump_all")
    /\ UNCHANGED <<chain, cur, started, nfail, sent>>
    /\ UNCHANGED <<imapVars, popVars, fsVars>>

\* ----------------------------------------------------------------- IMAP
\* an injected failure is allowed while the budget lasts
MayFail == nfail < MaxFailures

Cmd(name, f, m, ok) == <<name, f, m, ok>>

\* the step at the yield raised: control goes to the except clause
Raise(f, step, m) ==
    /\ failure' = [failure EXCEPT ![f] = step]
    /\ failedMsg' = [failedMsg EXCEPT ![f] = m]
    /\ how' = IF step = "select" THEN "noyield" ELSE "error"
    /\ nfail' = nfail + 1
    /\ pc' = "except"

\* an unselect that sits in an else clause: skipped when the body raised
FinallySelectedElseOnly(sel, h) == IF h = "error" THEN sel ELSE 0

\* an unselect that sits in the except clause: skipped on a normal exit
FinallySelectedExceptOnly(sel, h) == IF h = "normal" THEN sel ELSE 0

\* the finally clause of use_folder: unselect_folder() on every exit path
FinallySelected(sel, h) == 0

\* how the call of dump_folder ends, given how the scope was left: a body
\* exception is swallowed by the bare except; a failed select leaves the
\* generator without a yield, so entering the with statement raises
DumpFolderResult(h) == IF h = "noyield" THEN "raised" ELSE "returned"

\* the loop of IMAPDumper.dump_all over list_folders()
dump_all ==
    /\ pc = "dump_all"
    /\ IF folderIdx < nFolders
       THEN /\ folderIdx' = folderIdx + 1
            /\ result' = [result EXCEPT ![folderIdx + 1] = "running"]
            /\ how' = "normal"
            /\ message_ids' = <<>>
            /\ messages_flags' = <<>>
            /\ pos' = 0
            /\ message' = NoMessage
            /\ pc' = "select"
            /\ UNCHANGED out
       ELSE /\ pc' = "cli"
            /\ out' = Append(out, <<"Mailbox dumped via imap", UserName>>)
            /\ UNCHANGED <<folderIdx, result, how, message_ids,
                           messages_flags, pos, message>>
    /\ UNCHANGED <<chain, cur, cond, attempts, exited, started, dumped>>
    /\ UNCHANGED <<selected, serverFlags, origFlags, failure, failedMsg,
                   exported, log, nfail, nFolders, sent>>
    /\ UNCHANGED <<popVars, fsVars>>

\* use_folder up to the yield: select_folder(folder_name)
select_folder ==
    /\ pc = "select"
    /\ LET f == folderIdx IN
       \/ /\ \E n \in 0..MaxMsgs :
               /\ serverFlags' = [serverFlags EXCEPT
                                    ![f] = [m \in 1..n |-> InitialFlags(f, m)]]
               /\ origFlags' = [origFlags EXCEPT
                                    ![f] = [m \in 1..n |-> InitialFlags(f, m)]]
          /\ selected' = f
          /\ log' = Append(log, Cmd("SELECT", f, 0, TRUE))
          /\ out' = Append(out, <<"Dump folder", ToString(f)>>)
          /\ pc' = "search"
          /\ UNCHANGED <<how, failure, failedMsg, nfail>>
       \/ /\ MayFail
          /\ Raise(f, "select", 0)
          /\ log' = Append(log, Cmd("SELECT", f, 0, FALSE))
          /\ UNCHANGED <<selected, serverFlags, origFlags, out>>
    /\ UNCHANGED <<chain, cur, cond, attempts, exited, started, dumped>>
    /\ UNCHANGED <<folderIdx, message_ids, messages_flags, pos, message,
                   result, exported, nFolders, sent>>
    /\ UNCHANGED <<popVars, fsVars>>

\* message_ids = self.client.search()
search ==
    /\ pc = "search"
    /\ LET f == folderIdx IN
       \/ /\ message_ids' = [i \in 1..Len(serverFlags[f]) |-> i]
          /\ log' = Append(log, Cmd("SEARCH", f, 0, TRUE))
          /\ pc' = "get_flags"
          /\ UNCHANGED <<how, failure, failedMsg, nfail>>
       \/ /\ MayFail
          /\ Raise(f, "search", 0)
          /\ log' = Append(log, Cmd("SEARCH", f, 0, FALSE))
          /\ UNCHANGED message_ids
    /\ UNCHANGED <<cliVars, popVars, fsVars, nFolders, sent>>
    /\ UNCHANGED <<folderIdx, selected, serverFlags, origFlags,
                   messages_flags, pos, message, result, exported>>

\* messages_flags = self.client.get_flags(message_ids), then the test for an
\* empty folder; get_flags of no messages returns {} without a command
get_flags ==
    /\ pc = "get_flags"
    /\ LET f == folderIdx IN
       \/ /\ messages_flags' =
                 [i \in 1..Len(message_ids) |-> FlagTuple(serverFlags[f][message_ids[i]])]
          /\ log' = IF Len(message_ids) > 0
                    THEN Append(log, Cmd("FETCH FLAGS", f, 0, TRUE))
                    ELSE log
          /\ IF Len(message_ids) = 0
             THEN pc' = "finally" /\ UNCHANGED pos
             ELSE pc' = "fetch" /\ pos' = 1
          /\ UNCHANGED <<how, failure, failedMsg, nfail>>
       \/ /\ MayFail
          /\ Len(message_ids) > 0
          /\ Raise(f, "get_flags", 0)
          /\ log' = Append(log, Cmd("FETCH FLAGS", f, 0, FALSE))
          /\ UNCHANGED <<messages_flags, pos>>
    /\ UNCHANGED <<cliVars, popVars, fsVars, nFolders, sent>>
    /\ UNCHANGED <<folderIdx, selected, serverFlags, origFlags, message_ids,
                   message, result, exported>>

\* message = self.client.fetch([message_id], 'RFC822').get(message_id)
fetch ==
    /\ pc = "fetch"
    /\ LET f == folderIdx
           m == message_ids[pos] IN
       \/ /\ serverFlags' = [serverFlags EXCEPT
                               ![f][m] = FetchSideEffect(serverFlags[f][m])]
          /\ message' = FetchResponse(f, m)
          /\ log' = Append(log, Cmd("FETCH RFC822", f, m, TRUE))
          /\ pc' = "set_flags"
          /\ UNCHANGED <<how, failure, failedMsg, nfail>>
       \/ /\ MayFail
          /\ Raise(f, "fetch", m)
          /\ log' = Append(log, Cmd("FETCH RFC822", f, m, FALSE))
          /\ UNCHANGED <<serverFlags, message>>
    /\ UNCHANGED <<cliVars, popVars, fsVars, nFolders, sent>>
    /\ UNCHANGED <<folderIdx, selected, origFlags, message_ids,
                   messages_flags, pos, result, exported>>

\* self.client.set_flags([message_id], ...)
set_flags ==
    /\ pc = "set_flags"
    /\ LET f == folderIdx
           m == message_ids[pos] IN
       \/ /\ serverFlags' = [serverFlags EXCEPT
                               ![f][m] = StoreFlags(serverFlags[f][m],
                                                    FlagsArg(messages_flags[pos]))]
          /\ log' = Append(log, Cmd("STORE FLAGS", f, m, TRUE))
          /\ pc' = "write"
          /\ UNCHANGED <<how, failure, failedMsg, nfail>>
       \/ /\ MayFail
          /\ Raise(f, "set_flags", m)
          /\ log' = Append(log, Cmd("STORE FLAGS", f, m, FALSE))
          /\ UNCHANGED serverFlags
    /\ UNCHANGED <<cliVars, popVars, fsVars, nFolders, sent>>
    /\ UNCHANGED <<folderIdx, selected, origFlags, message_ids,
                   messages_flags, pos, message, result, exported>>

\* lines 64-70: makedirs, the file name from time(), open and write; then the
\* for loop moves to the next message or ends
write ==
    /\ pc = "write"
    /\ LET f == folderIdx
           m == message_ids[pos] IN
       \/ /\ \E t \in TimeReadings(clock) :
               /\ clock' = t
               /\ files' = WriteFile(files, Path(ImapRoot, f, t), Payload(message))
          /\ dirs' = MakeDirs(dirs, ImapRoot, f)
          /\ exported' = [exported EXCEPT ![f] = @ \cup {m}]
          /\ IF pos = Len(messages_flags)
             THEN pc' = "finally" /\ UNCHANGED pos
             ELSE pc' = "fetch" /\ pos' = pos + 1
          /\ UNCHANGED <<how, failure, failedMsg, nfail>>
       \/ /\ MayFail
          /\ Raise(f, "makedirs", m)
          /\ UNCHANGED <<clock, files, dirs, exported, pos>>
       \/ /\ MayFail
          /\ Raise(f, "write", m)
          /\ \E t \in TimeReadings(clock) : clock' = t
          /\ dirs' = MakeDirs(dirs, ImapRoot, f)
          /\ UNCHANGED <<files, exported, pos>>
    /\ UNCHANGED <<cliVars, popVars, nFolders, sent>>
    /\ UNCHANGED <<folderIdx, selected, serverFlags, origFlags, message_ids,
                   messages_flags, message, result, log>>

\* the bare except of use_folder
use_folder_except ==
    /\ pc = "except"
    /\ out' = Append(out, <<"Cannot user folder", ToString(folderIdx)>>)
    /\ pc' = "finally"
    /\ UNCHANGED <<chain, cur, cond, attempts, exited, started, dumped, nfail, sent>>
    /\ UNCHANGED <<imapVars, popVars, fsVars>>

\* the finally clause of use_folder and the end of the dump_folder call
use_folder_finally ==
    /\ pc = "finally"
    /\ LET f == folderIdx IN
       /\ selected' = FinallySelected(selected, how)
       /\ result' = [result EXCEPT ![f] = DumpFolderResult(how)]
       /\ IF how = "noyield"
          THEN \* UNSELECT with no folder selected: the server's answer decides
               \* which exception leaves dump_folder, dump_all and the command
               /\ \E accepted \in BOOLEAN :
                    log' = Append(log, Cmd("UNSELECT", f, 0, accepted))
          ELSE /\ log' = Append(log, Cmd("UNSELECT", f, 0, TRUE))
       /\ IF DumpFolderResult(how) = "raised"
          THEN pc' = "terminated" /\ exited' = "traceback"
          ELSE pc' = "dump_all" /\ UNCHANGED exited
    /\ UNCHANGED <<chain, cur, cond, attempts, out, started, dumped, nfail>>
    /\ UNCHANGED <<folderIdx, how, serverFlags, origFlags, message_ids,
                   messages_flags, pos, message, failure, failedMsg, exported,
                   nFolders, sent>>
    /\ UNCHANGED <<popVars, fsVars>>

\* ----------------------------------------------------------------- POP3
\* lines 92-94: makedirs and the message count
pop3_dump_all ==
    /\ pc = "pop3_dump_all"
    /\ dirs' = dirs \cup {<<Pop3Root, 0>>}
    /\ \E n \in 0..MaxPop : popCount' = n
    /\ popIdx' = 0
    /\ pc' = "pop3_loop"
    /\ UNCHANGED <<cliVars, imapVars, nfail, sent>>
    /\ UNCHANGED <<clock, files, retrLog, popFailed>>

\* one iteration of the loop: open the file, retr(message_id + 1), write
pop3_message ==
    /\ pc = "pop3_loop"
    /\ IF popIdx < popCount
       THEN /\ retrLog' = Append(retrLog, popIdx + 1)
            /\ \E t \in TimeReadings(clock) :
                 /\ clock' = t
                 /\ \/ /\ files' = WriteFile(files, Path(Pop3Root, 0, t),
                                             WriteLines(Retr(popIdx + 1)))
                       /\ popIdx' = popIdx + 1
                       /\ UNCHANGED <<pc, exited, popFailed, nfail>>
                    \/ /\ MayFail
                       /\ files' = WriteFile(files, Path(Pop3Root, 0, t), <<>>)
                       /\ popFailed' = TRUE
                       /\ nfail' = nfail + 1
                       /\ pc' = "terminated"
                       /\ exited' = "traceback"
                       /\ UNCHANGED popIdx
            /\ UNCHANGED out
       ELSE /\ pc' = "cli"
            /\ out' = Append(out, <<"Mailbox dumped via pop3", UserName>>)
            /\ UNCHANGED <<clock, files, retrLog, popIdx, exited, popFailed, nfail>>
    /\ UNCHANGED <<chain, cur, cond, attempts, started, dumped, sent>>
    /\ UNCHANGED <<imapVars, popCount, dirs>>

Next ==
    \/ cli_invoke
    \/ cli_finish
    \/ send_message
    \/ IMAPDumper_init
    \/ POP3Dumper_init
    \/ dump_all
    \/ select_folder
    \/ search
    \/ get_flags
    \/ fetch
    \/ set_flags
    \/ write
    \/ use_folder_except
    \/ use_folder_finally
    \/ pop3_dump_all
    \/ pop3_message

Spec == Init /\ [][Next]_vars

SpecLong == InitLong /\ [][Next]_vars

\* ------------------------------------------------------------ properties
Terminated == pc = "terminated"

InScope == pc \in {"search", "get_flags", "fetch", "set_flags", "write",
                   "except", "finally"}

BodySteps == {"search", "get_flags", "fetch", "set_flags", "makedirs", "write"}

InLog(e) == \E i \in DOMAIN log : log[i] = e

Printed(l) == \E i \in DOMAIN out : out[i] = l

\* messages the folder enumerated
Enumerated(f) == DOMAIN origFlags[f]

\* artifact files of folder f that hold message m
Artifacts(f, m) == { p \in FilesIn(files, ImapRoot, f) : files[p] = Body(f, m) }

\* C1: a folder with N > 0 messages whose dump_folder call completed with no
\* failure has exactly N artifact files in root/F, one per message
C1_ExactlyNArtifacts ==
    \A f \in Folders :
        (result[f] = "returned" /\ failure[f] = "none" /\ Len(origFlags[f]) > 0)
        => /\ Cardinality(FilesIn(files, ImapRoot, f)) = Len(origFlags[f])
           /\ \A m \in Enumerated(f) : Cardinality(Artifacts(f, m)) = 1

\* C2: every message whose artifact was written has, on the server, exactly
\* the flags it had before the export
C2_FlagsRoundTrip ==
    \A f \in Folders : \A m \in exported[f] :
        serverFlags[f][m] = origFlags[f][m]

C2_Witness ==
    /\ \E f \in Folders : \E m \in exported[f] : origFlags[f][m] = {}
    /\ \E f \in Folders : \E m \in exported[f] : origFlags[f][m] = {Flagged}
    /\ \E f \in Folders : \E m \in exported[f] : Seen \in origFlags[f][m]
    /\ Terminated

\* C3: a failed select_folder is reported, dump_folder returns normally and
\* dump_all calls dump_folder for every remaining folder
C3_SelectFailureNonFatal ==
    \A f \in Folders :
        failure[f] = "select"
        => /\ result[f] \in {"running", "returned"}
           /\ Terminated => \A g \in Folders : g > f => result[g] # "not_called"

\* C4: every successful select_folder is followed by an unselect_folder of
\* that folder before another folder is selected and before dump_folder
\* returns, on every exit path; outside the scope of use_folder, and when
\* the process has ended, no folder is selected
C4_NestedSelection ==
    /\ \A i \in DOMAIN log :
          (log[i][1] = "SELECT" /\ log[i][4])
          => \/ \E j \in (i + 1)..Len(log) :
                   /\ log[j] = Cmd("UNSELECT", log[i][2], 0, TRUE)
                   /\ \A k \in (i + 1)..(j - 1) : log[k][1] # "SELECT"
             \/ /\ InScope
                /\ folderIdx = log[i][2]
                /\ selected = log[i][2]
                /\ \A k \in (i + 1)..Len(log) : log[k][1] # "SELECT"
    /\ ~InScope => selected = 0
    /\ selected # 0 => selected = folderIdx

C4_Witness ==
    \E f \in Folders :
        /\ failure[f] \in BodySteps
        /\ result[f] = "returned"
        /\ selected # 0
        /\ selected # f

\* C5: a fetch failure for message m is reported and costs only m its
\* artifact; every other enumerated message of the folder has exactly one
C5_FetchFailureCostsOnlyThatMessage ==
    \A f \in Folders :
        (result[f] = "returned" /\ failure[f] = "fetch")
        => /\ Printed(<<"Cannot user folder", ToString(f)>>)
           /\ \A m \in Enumerated(f) :
                 m # failedMsg[f] => Cardinality(Artifacts(f, m)) = 1

Pop3Completed == Printed(<<"Mailbox dumped via pop3", UserName>>)

\* C6: a POP3 export of M messages that completes has retrieved exactly the
\* indexes 1..M in ascending order and left exactly M files in the output
\* directory, the file of index i holding the lines of retr(i), each
\* followed by a terminator
C6_Pop3ExactlyMFiles ==
    Pop3Completed
    => /\ retrLog = [i \in 1..popCount |-> i]
       /\ <<Pop3Root, 0>> \in dirs
       /\ Cardinality(FilesIn(files, Pop3Root, 0)) = popCount
       /\ \A i \in 1..popCount :
             \E p \in FilesIn(files, Pop3Root, 0) : files[p] = WriteLines(Retr(i))

\* C7: with invalid credentials the constructor prints the invalid-credentials
\* line, and nothing else as an error, and ends the process: one session
\* attempt per started subcommand, dump_all not invoked, nothing created
\* under the subcommand's output folder, no later subcommand started
C7_InvalidCredentials ==
    cond = "invalid_credentials"
    => /\ Terminated
       /\ exited = "sys.exit"
       /\ ErrorLines(out) = <<AuthErrorMsg>>
       /\ attempts = Len(started)
       /\ started[Len(started)] = cur
       /\ \A i \in DOMAIN dumped : dumped[i] # cur
       /\ \A d \in dirs : d[1] # OutputFolder(cur)
       /\ \A p \in DOMAIN files : p[1] # OutputFolder(cur)

C7_Witness ==
    /\ cond = "invalid_credentials"
    /\ cur = "pop3_dump"
    /\ chain # <<>>
    /\ Terminated

\* C8: every network or DNS failure while connecting ends in the reported
\* cannot-reach-server state
C8_NetworkFailureReported ==
    cond \in NetworkFailures
    => /\ Terminated
       /\ exited = "sys.exit"
       /\ ErrorLines(out) = <<ConnErrorMsg(ServerName)>>

\* C9: an error raised while processing a selected folder is swallowed:
\* dump_folder returns normally and dump_all calls dump_folder for every
\* remaining folder
C9_BodyErrorSwallowed ==
    \A f \in Folders :
        failure[f] \in BodySteps
        => /\ result[f] \in {"running", "returned"}
           /\ Terminated => \A g \in Folders : g > f => result[g] # "not_called"

\* a folder that was selected and enumerated zero messages
EnumeratedNone(f) == InLog(Cmd("SEARCH", f, 0, TRUE)) /\ Len(origFlags[f]) = 0

\* C10: a folder that enumerates zero messages gets no subdirectory, no file,
\* no fetch and no set_flags, and is unselected when dump_folder has returned
C10_EmptyFolder ==
    \A f \in Folders :
        EnumeratedNone(f)
        => /\ <<ImapRoot, f>> \notin dirs
           /\ FilesIn(files, ImapRoot, f) = {}
           /\ \A i \in DOMAIN log :
                 log[i][2] = f => log[i][1] \notin {"FETCH FLAGS", "FETCH RFC822", "STORE FLAGS"}
           /\ result[f] # "raised"
           /\ result[f] = "returned"
              => selected # f /\ InLog(Cmd("UNSELECT", f, 0, TRUE))

C10_Witness ==
    \E f \in Folders :
        /\ EnumeratedNone(f)
        /\ failure[f] = "none"
        /\ result[f] = "returned"

====
